---- MODULE Spec2Model ----
(***************************************************************************)
(* State-machine model of app.js, the client-side catalog browser:         *)
(* profile store, shard loader/cache, catalog filter, requirement          *)
(* comparator, detail view and the event handlers wired up by init().      *)
(***************************************************************************)
EXTENDS Integers, Sequences, FiniteSets, TLC

VARIABLES
  pc,          \* position of init(): "start", "loadIndex", "ready", "failed"
  index,       \* state.index
  filtered,    \* state.filtered
  selected,    \* state.selected
  specs,       \* state.specs
  shardCache,  \* state.shardCache (a function from the cached shard ids)
  storage,     \* localStorage["steamSpecChecker_specs"]: JNull (absent) or a JSON text
  searchValue, \* els.search.value
  filterValue, \* els.filter.value
  listItems,   \* els.list children: the appid each item's onclick selects
  meta,        \* els.meta.textContent
  detail,      \* els.detail / els.detailEmpty and the closure of the last renderDetail
  modalOpen,   \* els.modal / els.backdrop visibility
  form,        \* values of the five profile inputs
  tasks,       \* selectApp calls suspended in loadShard's fetch, in order of issue
  cacheWrites, \* number of state.shardCache.set calls so far, per shard id
  lastSel,     \* the most recent selectApp call and how it settled
  probe        \* call record of the function-level specifications

vars == <<pc, index, filtered, selected, specs, shardCache, storage, searchValue,
          filterValue, listItems, meta, detail, modalOpen, form, tasks, cacheWrites,
          lastSel, probe>>

-----------------------------------------------------------------------------
(* JavaScript values *)

JNull == [t |-> "null"]
JUndef == [t |-> "undefined"]
JNaN == [t |-> "NaN"]
Num(n) == [t |-> "number", v |-> n]
Str(s) == [t |-> "string", s |-> s]

\* Strings are sequences of one-character strings.
ToLowerChar(c) == IF c = "A" THEN "a" ELSE IF c = "B" THEN "b" ELSE c

toLowerCase(s) == [i \in 1..Len(s) |-> ToLowerChar(s[i])]

RECURSIVE trimStart(_)
trimStart(s) == IF s # <<>> /\ Head(s) = " " THEN trimStart(Tail(s)) ELSE s

RECURSIVE trimEnd(_)
trimEnd(s) ==
  IF s # <<>> /\ s[Len(s)] = " " THEN trimEnd(SubSeq(s, 1, Len(s) - 1)) ELSE s

trim(s) == trimEnd(trimStart(s))

includes(s, q) == \E i \in 0..(Len(s) - Len(q)) : SubSeq(s, i + 1, i + Len(q)) = q

-----------------------------------------------------------------------------
(* Requirement comparator *)

IsAbsent(x) == x = JNull \/ x = JUndef \/ x = JNaN

compareNumericStrict(userVal, reqVal) ==
  IF IsAbsent(reqVal) THEN [status |-> "unknown", text |-> <<"No numeric requirement">>]
  ELSE IF IsAbsent(userVal) THEN [status |-> "unknown", text |-> <<"Your value missing">>]
  ELSE IF userVal.v > reqVal.v
    THEN [status |-> "good", text |-> <<"Meets", userVal.v, reqVal.v>>]
  ELSE [status |-> "bad", text |-> <<"Below", userVal.v, reqVal.v>>]

compareNumeric(userVal, reqVal) ==
  IF IsAbsent(reqVal) THEN [status |-> "unknown", text |-> <<"No numeric requirement">>]
  ELSE IF IsAbsent(userVal) THEN [status |-> "unknown", text |-> <<"Your value missing">>]
  ELSE IF userVal.v >= reqVal.v
    THEN [status |-> "good", text |-> <<"Meets", userVal.v, reqVal.v>>]
  ELSE [status |-> "bad", text |-> <<"Below", userVal.v, reqVal.v>>]

badgeClass(status) ==
  IF status = "good" THEN "badge good"
  ELSE IF status = "bad" THEN "badge bad"
  ELSE "badge warn"

-----------------------------------------------------------------------------
(* Catalog filter *)

FilterLimit == 200

sliceNoLimit(apps) == apps

slice200(apps) == SubSeq(apps, 1, IF Len(apps) < FilterLimit THEN Len(apps) ELSE FilterLimit)

NameOrEmpty(a) == IF a.name.t = "string" THEN a.name.s ELSE <<>>

\* The value applyFilters assigns to state.filtered.
filterApps(idx, search, mode) ==
  LET q == toLowerCase(trim(search))
      a0 == idx.apps
      a1 == IF mode = "game" THEN SelectSeq(a0, LAMBDA a : a.type = "game") ELSE a0
      a2 == IF mode = "dlc" THEN SelectSeq(a1, LAMBDA a : a.type = "dlc") ELSE a1
      a3 == IF mode = "hasreqs" THEN SelectSeq(a2, LAMBDA a : a.has_requirements) ELSE a2
      a4 == IF q # <<>>
              THEN SelectSeq(a3, LAMBDA a : includes(toLowerCase(NameOrEmpty(a)), q))
              ELSE a3
  IN  slice200(a4)

\* What renderList leaves in els.list and els.meta for a given state.filtered.
renderListItems(f) == [i \in 1..Len(f) |-> f[i].appid]

renderListMeta(idx, f) == <<"Loaded", idx.total_apps, "Showing", Len(f)>>

-----------------------------------------------------------------------------
(* Detail rendering *)

Platforms == {"pc", "mac", "linux"}

\* null and undefined: what ?. stops at
Nullish(x) == x = JNull \/ x = JUndef

\* pickReq that also drops a record stating no number.
pickReqNumbersOnly(app, platform, level) ==
  IF Nullish(app.requirements) THEN JNull
  ELSE IF Nullish(app.requirements[platform]) THEN JNull
  ELSE IF Nullish(app.requirements[platform][level]) THEN JNull
  ELSE LET req == app.requirements[platform][level]
       IN  IF Nullish(req.ram_gb) /\ Nullish(req.vram_gb) /\ Nullish(req.storage_gb)
             THEN JNull ELSE req

\* app.requirements?.[platform]?.[level] || null
pickReq(app, platform, level) ==
  IF Nullish(app.requirements) THEN JNull
  ELSE IF Nullish(app.requirements[platform]) THEN JNull
  ELSE IF Nullish(app.requirements[platform][level]) THEN JNull
  ELSE app.requirements[platform][level]

\* userSpecs?.field
SpecField(userSpecs, f) == IF userSpecs = JNull THEN JUndef ELSE userSpecs[f]

\* renderReqCard whose badge leaves the storage comparison out.
renderReqCardNoStorage(title, req, userSpecs) ==
  IF req = JNull
    THEN [title |-> title, badge |-> "badge warn", label |-> "Missing",
          cmps |-> <<>>, shown |-> <<>>]
  ELSE
    LET ramCmp == compareNumeric(SpecField(userSpecs, "ram_gb"), req.ram_gb)
        vramCmp == compareNumeric(SpecField(userSpecs, "vram_gb"), req.vram_gb)
        stoCmp == compareNumeric(SpecField(userSpecs, "storage_gb"), req.storage_gb)
        anyBad == ramCmp.status = "bad" \/ vramCmp.status = "bad"
    IN  [title |-> title,
         badge |-> badgeClass(IF anyBad THEN "bad" ELSE "good"),
         label |-> IF userSpecs # JNull THEN "Compared" ELSE "Set your specs",
         cmps |-> <<ramCmp, vramCmp, stoCmp>>,
         shown |-> IF userSpecs # JNull
                     THEN <<ramCmp.text, vramCmp.text, stoCmp.text>>
                     ELSE <<>>]

renderReqCard(title, req, userSpecs) ==
  IF req = JNull
    THEN [title |-> title, badge |-> "badge warn", label |-> "Missing",
          cmps |-> <<>>, shown |-> <<>>]
  ELSE
    LET ramCmp == compareNumeric(SpecField(userSpecs, "ram_gb"), req.ram_gb)
        vramCmp == compareNumeric(SpecField(userSpecs, "vram_gb"), req.vram_gb)
        stoCmp == compareNumeric(SpecField(userSpecs, "storage_gb"), req.storage_gb)
        anyBad == ramCmp.status = "bad" \/ vramCmp.status = "bad" \/ stoCmp.status = "bad"
    IN  [title |-> title,
         badge |-> badgeClass(IF anyBad THEN "bad" ELSE "good"),
         label |-> IF userSpecs # JNull THEN "Compared" ELSE "Set your specs",
         cmps |-> <<ramCmp, vramCmp, stoCmp>>,
         shown |-> IF userSpecs # JNull
                     THEN <<ramCmp.text, vramCmp.text, stoCmp.text>>
                     ELSE <<>>]

\* els.detail.innerHTML as written by draw() inside renderDetail.
draw(app, platform, userSpecs) ==
  [appid |-> app.appid,
   active |-> platform,
   min |-> renderReqCard("Minimum", pickReq(app, platform, "minimum"), userSpecs),
   rec |-> renderReqCard("Recommended", pickReq(app, platform, "recommended"), userSpecs)]

NoDetail == [visible |-> FALSE, app |-> JNull, platform |-> "pc", userSpecs |-> JNull,
             html |-> JNull]

renderDetail(app, userSpecs) ==
  [visible |-> TRUE, app |-> app, platform |-> "pc", userSpecs |-> userSpecs,
   html |-> draw(app, "pc", userSpecs)]

-----------------------------------------------------------------------------
(* Local profile store: JSON text is a sequence of tokens *)

ProfileFields == <<"cpu", "gpu", "ram_gb", "vram_gb", "storage_gb">>

Tok(k, v) == [k |-> k, v |-> v]

DigitChars == <<"0", "1", "2", "3", "4", "5", "6", "7", "8", "9">>

IsDigit(c) == \E d \in 1..Len(DigitChars) : DigitChars[d] = c

DigitVal(c) == (CHOOSE d \in 1..Len(DigitChars) : DigitChars[d] = c) - 1

RECURSIVE ToDigits(_)
ToDigits(n) ==
  IF n < Len(DigitChars) THEN <<DigitChars[n + 1]>>
  ELSE Append(ToDigits(n \div Len(DigitChars)), DigitChars[(n % Len(DigitChars)) + 1])

RECURSIVE FromDigits(_)
FromDigits(ds) ==
  IF ds = <<>> THEN 0
  ELSE FromDigits(SubSeq(ds, 1, Len(ds) - 1)) * Len(DigitChars) + DigitVal(ds[Len(ds)])

AllDigits(s) == s # <<>> /\ \A i \in 1..Len(s) : IsDigit(s[i])

\* JSON.stringify of a property value; an undefined property is left out.
stringifyValueDropZero(x) ==
  IF x.t = "number" /\ x.v # 0 THEN <<Tok("num", ToDigits(x.v))>>
  ELSE IF x.t = "string" THEN <<Tok("str", x.s)>>
  ELSE IF x.t = "undefined" THEN <<>>
  ELSE <<Tok("null", <<>>)>>

stringifyValue(x) ==
  IF x.t = "number" THEN <<Tok("num", ToDigits(x.v))>>
  ELSE IF x.t = "string" THEN <<Tok("str", x.s)>>
  ELSE IF x.t = "undefined" THEN <<>>
  ELSE <<Tok("null", <<>>)>>

RECURSIVE stringifyMembers(_, _, _)
stringifyMembers(obj, i, first) ==
  IF i > Len(ProfileFields) THEN <<>>
  ELSE LET f == ProfileFields[i]
           val == stringifyValue(obj[f])
       IN  IF val = <<>> THEN stringifyMembers(obj, i + 1, first)
           ELSE (IF first THEN <<>> ELSE <<Tok(",", <<>>)>>)
                  \o <<Tok("key", <<f>>), Tok(":", <<>>)>> \o val
                  \o stringifyMembers(obj, i + 1, FALSE)

JSONstringify(obj) ==
  <<Tok("{", <<>>)>> \o stringifyMembers(obj, 1, TRUE) \o <<Tok("}", <<>>)>>

IsValueTok(tk) ==
  \/ tk.k = "null"
  \/ tk.k = "str"
  \/ tk.k = "num" /\ AllDigits(tk.v)

parseValue(tk) ==
  IF tk.k = "num" THEN Num(FromDigits(tk.v))
  ELSE IF tk.k = "str" THEN Str(tk.v)
  ELSE JNull

EmptyObject == [f \in {ProfileFields[i] : i \in 1..Len(ProfileFields)} |-> JUndef]

ParseFail == [ok |-> FALSE, value |-> JNull]

RECURSIVE parseMembers(_, _, _)
parseMembers(toks, i, acc) ==
  IF i + 3 > Len(toks) THEN ParseFail
  ELSE IF ~(toks[i].k = "key" /\ toks[i + 1].k = ":" /\ IsValueTok(toks[i + 2])) THEN ParseFail
  ELSE LET key == toks[i].v[1]
           next == IF key \in DOMAIN acc
                     THEN [acc EXCEPT ![key] = parseValue(toks[i + 2])]
                     ELSE acc
       IN  IF toks[i + 3].k = "}" /\ i + 3 = Len(toks) THEN [ok |-> TRUE, value |-> next]
           ELSE IF toks[i + 3].k = "," THEN parseMembers(toks, i + 4, next)
           ELSE ParseFail

\* JSON.parse: ok = FALSE stands for the SyntaxError it throws.
JSONparse(toks) ==
  IF Len(toks) = 1 /\ toks[1].k = "null" THEN [ok |-> TRUE, value |-> JNull]
  ELSE IF Len(toks) < 2 \/ toks[1].k # "{" THEN ParseFail
  ELSE IF Len(toks) = 2 THEN
    (IF toks[2].k = "}" THEN [ok |-> TRUE, value |-> EmptyObject] ELSE ParseFail)
  ELSE parseMembers(toks, 2, EmptyObject)

\* loadSpecs() without its try/catch: the SyntaxError of JSON.parse leaves the call.
loadSpecsNoCatch(raw) ==
  IF raw = JNull \/ raw = <<>> THEN JNull
  ELSE LET r == JSONparse(raw) IN IF r.ok THEN r.value ELSE [t |-> "throw"]

\* loadSpecs() reading a store whose entry is raw (JNull: no entry).
loadSpecs(raw) ==
  IF raw = JNull \/ raw = <<>> THEN JNull
  ELSE LET r == JSONparse(raw) IN IF r.ok THEN r.value ELSE JNull

\* The entry saveSpecs(p) leaves in the store.
saveSpecs(p) == JSONstringify(p)

\* clearSpecs() that removes some other key: the entry stays.
clearSpecsOtherKey == storage

\* The entry clearSpecs() leaves in the store.
clearSpecs == JNull

-----------------------------------------------------------------------------
(* Profile form *)

\* Number(v) of an input's value, for the values the model types: blank, digits,
\* other text.
Number(v) ==
  LET s == trim(v)
  IN  IF s = <<>> THEN Num(0)
      ELSE IF AllDigits(s) THEN Num(FromDigits(s))
      ELSE JNaN

toNum(v) == IF Number(v).t = "number" THEN Number(v) ELSE JNull

\* s.trim() || null
TextOrNull(v) == IF trim(v) = <<>> THEN JNull ELSE Str(trim(v))

readSpecsFromForm(f) ==
  [cpu |-> TextOrNull(f.cpu),
   gpu |-> TextOrNull(f.gpu),
   ram_gb |-> toNum(f.ram),
   vram_gb |-> toNum(f.vram),
   storage_gb |-> toNum(f.storage)]

\* x || "" for a text property
TextValue(x) == IF x.t = "string" THEN x.s ELSE <<>>

\* x ?? "" assigned to an input's value
NumValue(x) == IF x.t = "number" THEN ToDigits(x.v) ELSE <<>>

\* The input values openModal writes for state.specs = s.
formFor(s) ==
  LET o == IF s = JNull THEN EmptyObject ELSE s
  IN  [cpu |-> TextValue(o.cpu), gpu |-> TextValue(o.gpu), ram |-> NumValue(o.ram_gb),
       vram |-> NumValue(o.vram_gb), storage |-> NumValue(o.storage_gb)]

BlankForm == [cpu |-> <<>>, gpu |-> <<>>, ram |-> <<>>, vram |-> <<>>, storage |-> <<>>]

-----------------------------------------------------------------------------
(* The data store served to the session: data/index.json and data/shards *)

Req(r, v, s) == [ram_gb |-> r, vram_gb |-> v, storage_gb |-> s]

Tiers(min, rec) == [minimum |-> min, recommended |-> rec]

Summary(id, name, type, has) ==
  [appid |-> id, name |-> name, type |-> type, has_requirements |-> has]

Detail(id, name, type, reqs) ==
  [appid |-> id, name |-> name, type |-> type, requirements |-> reqs]

IndexDoc ==
  [total_apps |-> 3, shard_size |-> 4,
   apps |-> << Summary(1, Str(<<"a", "b">>), "game", TRUE),
               Summary(5, JNull, "game", TRUE),
               Summary(6, Str(<<"b">>), "tool", FALSE) >>]

\* Every AppDetail of the data store; appid 6 is listed in the index but has no record.
Details ==
  << Detail(1, Str(<<"a", "b">>), "game",
            [pc |-> Tiers(Req(Num(8), Num(2), Num(50)), Req(Num(16), JNull, JUndef)),
             mac |-> Tiers(Req(JNull, JNull, JNull), JUndef),
             linux |-> JUndef]),
     Detail(5, JNull, "game",
            [pc |-> Tiers(Req(Num(4), JUndef, Num(8)), JUndef),
             mac |-> JUndef,
             linux |-> Tiers(Req(Num(8), Num(2), JNull), Req(Num(8), Num(2), Num(8)))]) >>

\* shardForAppid with Math.round in place of Math.floor
shardRound(idx, appid) == (2 * appid + idx.shard_size) \div (2 * idx.shard_size)

\* shardForAppid, for an index document idx
shardForAppid(idx, appid) == appid \div idx.shard_size

\* The shard the data store files the record of appid under, for shards of size
\* records: the k with k * size <= appid < (k + 1) * size.
StoreShard(size, appid) ==
  CHOOSE k \in 0..appid : k * size <= appid /\ appid < (k + 1) * size

\* The AppDetail records the data store holds for an index other than IndexDoc:
\* one for every listed app but the last.
GenDetails(idx) ==
  [i \in 1..(Len(idx.apps) - 1) |->
     Detail(idx.apps[i].appid, idx.apps[i].name, idx.apps[i].type, JUndef)]

StoreDetails(idx) == IF idx = IndexDoc THEN Details ELSE GenDetails(idx)

\* The shard ids the data store has a document for, given its index.
ShardIdsOf(idx) ==
  {StoreShard(idx.shard_size, idx.apps[i].appid) : i \in 1..Len(idx.apps)}

\* The document of shard shardId in the data store of the loaded index.
ShardDoc(shardId) ==
  SelectSeq(StoreDetails(index),
            LAMBDA d : StoreShard(index.shard_size, d.appid) = shardId)

ShardIds == ShardIdsOf(IndexDoc)

\* str.padStart(n, c)
padStart(str, n, c) ==
  IF Len(str) >= n THEN str
  ELSE [i \in 1..n |-> IF i <= n - Len(str) THEN c ELSE str[i - (n - Len(str))]]

\* The part of the shard URL that varies: String(shardId).padStart(5, "0")
shardUrl(shardId) == padStart(ToDigits(shardId), 5, "0")

\* The five-digit name the data store gives the document of shard s.
StoreName(s) ==
  <<DigitChars[((s \div 10000) % 10) + 1], DigitChars[((s \div 1000) % 10) + 1],
    DigitChars[((s \div 100) % 10) + 1], DigitChars[((s \div 10) % 10) + 1],
    DigitChars[(s % 10) + 1]>>

\* res.ok of the fetch of url
ResourceExists(url) == \E s \in ShardIdsOf(index) : StoreName(s) = url

\* res.json() of the fetch of url
ResourceAt(url) == ShardDoc(CHOOSE s \in ShardIdsOf(index) : StoreName(s) = url)

\* shard.find(x => x.appid === appid), JUndef when there is none
find(shard, appid) ==
  IF \E i \in 1..Len(shard) : shard[i].appid = appid
    THEN shard[CHOOSE i \in 1..Len(shard) :
                 /\ shard[i].appid = appid
                 /\ \A j \in 1..(i - 1) : shard[j].appid # appid]
    ELSE JUndef

-----------------------------------------------------------------------------
(* Bounds and input domains *)

\* Shard fetches in flight at once: in the session of every handler, and in the
\* browsing session that races selections.
MaxPending == 1

MaxInFlight == 2

Modes == {"all", "game", "dlc", "hasreqs"}

Queries == {<<>>, <<" ", "A">>, <<"b">>}

\* What the user does with the search box and the selector while browsing.
SessionQueries == {<<>>, <<"b">>}

SessionModes == {"all", "game"}

FullForm ==
  [cpu |-> <<"a", " ">>, gpu |-> <<" ">>, ram |-> <<"1", "6">>, vram |-> <<"2">>,
   storage |-> <<"5", "0">>]

FormInputs == {BlankForm, FullForm}

\* What an earlier session may have left in the store: nothing, an entry that does
\* not parse, a saved profile.
Malformed == <<Tok("{", <<>>), Tok("key", <<"cpu">>)>>

InitialStorage == {JNull, Malformed, JSONstringify(readSpecsFromForm(FullForm))}

NoCall == [fn |-> "none"]

RemoveAt(seq, i) == SubSeq(seq, 1, i - 1) \o SubSeq(seq, i + 1, Len(seq))

IsFailureText(m) == Len(m) > 0 /\ m[1] = "Failed to load site data"

-----------------------------------------------------------------------------
(* Initial state: the script has been evaluated, init() not yet called *)

InitWith(stored) ==
  /\ pc = "start"
  /\ index = JNull
  /\ filtered = <<>>
  /\ selected = JNull
  /\ specs = JNull
  /\ shardCache = <<>>
  /\ storage \in stored
  /\ searchValue = <<>>
  /\ filterValue = "all"
  /\ listItems = <<>>
  /\ meta = <<>>
  /\ detail = NoDetail
  /\ modalOpen = FALSE
  /\ form = BlankForm
  /\ tasks = <<>>
  /\ cacheWrites = [s \in ShardIds |-> 0]
  /\ lastSel = [appid |-> 0, outcome |-> "none"]
  /\ probe = NoCall

Init == InitWith(InitialStorage)

-----------------------------------------------------------------------------
(* init() *)

\* The handlers of lines 275-294 are installed once the index load has returned.
ListenersRegisteredEarly == pc # "start"

ListenersRegistered == pc = "ready"

\* applyFilters() followed by renderList(), for the given index and input values;
\* with no index the read of state.index.apps throws and nothing is changed.
applyFilters(idx, search, mode) ==
  IF idx = JNull
    THEN UNCHANGED <<filtered, listItems, meta>>
    ELSE /\ filtered' = filterApps(idx, search, mode)
         /\ listItems' = renderListItems(filtered')
         /\ meta' = renderListMeta(idx, filtered')

\* init() up to its suspension in loadIndex's fetch
InitStart ==
  /\ pc = "start"
  /\ specs' = loadSpecs(storage)
  /\ pc' = "loadIndex"
  /\ UNCHANGED <<index, filtered, selected, shardCache, storage, searchValue, filterValue,
                 listItems, meta, detail, modalOpen, form, tasks, lastSel, probe,
                 cacheWrites>>

\* loadIndex throws (fetch rejects, !res.ok or res.json() rejects): init() rejects
\* and the catch of line 299 runs.
IndexFail ==
  /\ pc = "loadIndex"
  /\ pc' = "failed"
  /\ \E message \in {"Failed to load index", "TypeError", "SyntaxError"} :
       meta' = <<"Failed to load site data", message>>
  /\ UNCHANGED <<index, filtered, selected, specs, shardCache, storage, searchValue,
                 filterValue, listItems, detail, modalOpen, form, tasks, lastSel, probe,
                 cacheWrites>>

\* loadIndex returns: lines 273-296.
IndexLoaded ==
  /\ pc = "loadIndex"
  /\ index' = IndexDoc
  /\ pc' = "ready"
  /\ applyFilters(index', searchValue, filterValue)
  /\ UNCHANGED <<selected, specs, shardCache, storage, searchValue, filterValue, detail,
                 modalOpen, form, tasks, lastSel, probe, cacheWrites>>

-----------------------------------------------------------------------------
(* Search box and category selector *)

\* The user edits the search box; the "input" listener, if installed, runs.
SearchInput(Q) ==
  \E q \in Q :
    /\ pc # "start"
    /\ q # searchValue
    /\ searchValue' = q
    /\ IF ListenersRegistered
         THEN applyFilters(index, searchValue', filterValue)
         ELSE UNCHANGED <<filtered, listItems, meta>>
    /\ UNCHANGED <<pc, index, selected, specs, shardCache, storage, filterValue, detail,
                   modalOpen, form, tasks, lastSel, probe, cacheWrites>>

\* The user picks a category; the "change" listener, if installed, runs.
FilterChange(M) ==
  \E m \in M :
    /\ pc # "start"
    /\ m # filterValue
    /\ filterValue' = m
    /\ IF ListenersRegistered
         THEN applyFilters(index, searchValue, filterValue')
         ELSE UNCHANGED <<filtered, listItems, meta>>
    /\ UNCHANGED <<pc, index, selected, specs, shardCache, storage, searchValue, detail,
                   modalOpen, form, tasks, lastSel, probe, cacheWrites>>

-----------------------------------------------------------------------------
(* Shard loader / cache and selection *)

\* state.shardCache.has(shardId), line 84
cacheHas(cache, shardId) == shardId \in DOMAIN cache

\* state.shardCache.set(shardId, data), line 89
cacheSet(cache, shardId, data) ==
  [s \in (DOMAIN cache) \cup {shardId} |-> IF s = shardId THEN data ELSE cache[s]]

\* Lines 235-237 of selectApp, run with the shard in hand: the new state.selected,
\* the detail view, and how the call ended.
selectedAfter(shard, appid) ==
  IF find(shard, appid) = JUndef THEN JNull ELSE find(shard, appid)

detailAfter(shard, appid) ==
  IF selectedAfter(shard, appid) # JNull
    THEN renderDetail(selectedAfter(shard, appid), specs)
    ELSE detail

outcomeAfter(shard, appid) ==
  IF selectedAfter(shard, appid) # JNull THEN "rendered" ELSE "absent"

\* Task i is the most recent selectApp call and has not settled yet.
IsLatest(i) == i = Len(tasks) /\ lastSel.outcome = "pending"

settleLatest(i, outcome) ==
  IF IsLatest(i) THEN [lastSel EXCEPT !.outcome = outcome] ELSE lastSel

\* Click on a list item: selectApp(appid) up to its suspension. On a cache hit the
\* awaits resume in microtasks, before any other event, so the call completes here.
SelectApp(limit) ==
  \E k \in 1..Len(listItems) :
    LET appid == listItems[k]
        shardId == shardForAppid(index, appid)
    IN  /\ IF cacheHas(shardCache, shardId)
             THEN /\ selected' = selectedAfter(shardCache[shardId], appid)
                  /\ detail' = detailAfter(shardCache[shardId], appid)
                  /\ lastSel' = [appid |-> appid,
                                 outcome |-> outcomeAfter(shardCache[shardId], appid)]
                  /\ UNCHANGED tasks
             ELSE /\ Len(tasks) < limit
                  /\ tasks' = Append(tasks, [appid |-> appid, shardId |-> shardId])
                  /\ lastSel' = [appid |-> appid, outcome |-> "pending"]
                  /\ UNCHANGED <<selected, detail>>
        /\ UNCHANGED <<pc, index, filtered, specs, shardCache, storage, searchValue,
                       filterValue, listItems, meta, modalOpen, form, probe, cacheWrites>>

\* Task i's loadShard throws (fetch rejects, !res.ok or res.json() rejects):
\* selectApp's promise is rejected and nothing handles it.
ShardFailCaching(i) ==
  /\ tasks' = RemoveAt(tasks, i)
  /\ lastSel' = settleLatest(i, "failed")
  /\ shardCache' = cacheSet(shardCache, tasks[i].shardId, <<>>)
  /\ cacheWrites' = [cacheWrites EXCEPT ![tasks[i].shardId] = @ + 1]
  /\ UNCHANGED <<pc, index, filtered, selected, specs, storage, searchValue,
                 filterValue, listItems, meta, detail, modalOpen, form, probe>>

ShardFail(i) ==
  /\ tasks' = RemoveAt(tasks, i)
  /\ lastSel' = settleLatest(i, "failed")
  /\ UNCHANGED <<pc, index, filtered, selected, specs, shardCache, storage, searchValue,
                 filterValue, listItems, meta, detail, modalOpen, form, probe, cacheWrites>>

\* Task i's fetch and res.json() resolve: lines 89-90, then lines 235-237 of the
\* suspended selectApp.
ShardLoaded(i) ==
  LET t == tasks[i]
      data == ResourceAt(shardUrl(t.shardId))
  IN  /\ ResourceExists(shardUrl(t.shardId))
      /\ shardCache' = cacheSet(shardCache, t.shardId, data)
      /\ cacheWrites' = [cacheWrites EXCEPT ![t.shardId] = @ + 1]
      /\ selected' = selectedAfter(data, t.appid)
      /\ detail' = detailAfter(data, t.appid)
      /\ lastSel' = settleLatest(i, outcomeAfter(data, t.appid))
      /\ tasks' = RemoveAt(tasks, i)
      /\ UNCHANGED <<pc, index, filtered, specs, storage, searchValue, filterValue,
                     listItems, meta, modalOpen, form, probe>>

-----------------------------------------------------------------------------
(* Detail view tabs *)

\* btn.onclick of a tab of the visible detail view
TabClick ==
  \E p \in Platforms :
    /\ detail.visible
    /\ detail' = [detail EXCEPT !.platform = p,
                                !.html = draw(detail.app, p, detail.userSpecs)]
    /\ UNCHANGED <<pc, index, filtered, selected, specs, shardCache, storage, searchValue,
                   filterValue, listItems, meta, modalOpen, form, tasks, lastSel, probe,
                   cacheWrites>>

-----------------------------------------------------------------------------
(* Profile modal *)

OpenModal ==
  /\ ListenersRegistered
  /\ ~modalOpen
  /\ modalOpen' = TRUE
  /\ form' = formFor(specs)
  /\ UNCHANGED <<pc, index, filtered, selected, specs, shardCache, storage, searchValue,
                 filterValue, listItems, meta, detail, tasks, lastSel, probe, cacheWrites>>

CloseModal ==
  /\ ListenersRegistered
  /\ modalOpen
  /\ modalOpen' = FALSE
  /\ UNCHANGED <<pc, index, filtered, selected, specs, shardCache, storage, searchValue,
                 filterValue, listItems, meta, detail, form, tasks, lastSel, probe,
                 cacheWrites>>

\* The user edits the inputs of the open modal.
FormInput(F) ==
  \E f \in F :
    /\ modalOpen
    /\ f # form
    /\ form' = f
    /\ UNCHANGED <<pc, index, filtered, selected, specs, shardCache, storage, searchValue,
                   filterValue, listItems, meta, detail, modalOpen, tasks, lastSel, probe,
                   cacheWrites>>

\* if (state.selected) renderDetail(state.selected), after state.specs became s
rerenderAfter(s) == IF selected # JNull THEN renderDetail(selected, s) ELSE detail

SaveSpecsClick ==
  /\ ListenersRegistered
  /\ modalOpen
  /\ specs' = readSpecsFromForm(form)
  /\ storage' = saveSpecs(specs')
  /\ modalOpen' = FALSE
  /\ detail' = rerenderAfter(specs')
  /\ UNCHANGED <<pc, index, filtered, selected, shardCache, searchValue, filterValue,
                 listItems, meta, form, tasks, lastSel, probe, cacheWrites>>

ClearSpecsClick ==
  /\ ListenersRegistered
  /\ modalOpen
  /\ specs' = JNull
  /\ storage' = clearSpecs
  /\ modalOpen' = FALSE
  /\ detail' = rerenderAfter(specs')
  /\ UNCHANGED <<pc, index, filtered, selected, shardCache, searchValue, filterValue,
                 listItems, meta, form, tasks, lastSel, probe, cacheWrites>>

-----------------------------------------------------------------------------
(* The session *)

Next ==
  \/ InitStart
  \/ IndexFail
  \/ IndexLoaded
  \/ SearchInput(SessionQueries)
  \/ FilterChange(SessionModes)
  \/ SelectApp(MaxPending)
  \/ \E i \in 1..Len(tasks) : ShardFail(i)
  \/ \E i \in 1..Len(tasks) : ShardLoaded(i)
  \/ TabClick
  \/ OpenModal
  \/ CloseModal
  \/ FormInput(FormInputs)
  \/ SaveSpecsClick
  \/ ClearSpecsClick

Spec == Init /\ [][Next]_vars

\* Browsing with several selections in flight, the profile left alone.
NextRace ==
  \/ InitStart
  \/ IndexFail
  \/ IndexLoaded
  \/ SearchInput(SessionQueries)
  \/ FilterChange(SessionModes)
  \/ SelectApp(MaxInFlight)
  \/ \E i \in 1..Len(tasks) : ShardFail(i)
  \/ \E i \in 1..Len(tasks) : ShardLoaded(i)
  \/ TabClick

SpecRace == Init /\ [][NextRace]_vars

-----------------------------------------------------------------------------
(* The comparator on its own: compareNumeric applied to every pair of values *)

MaxNum == 8

CmpValues == {JNull, JUndef, JNaN} \cup {Num(n) : n \in (-1)..MaxNum}

CallCompare ==
  \E u \in CmpValues, r \in CmpValues :
    /\ probe' = [fn |-> "compareNumeric", userVal |-> u, reqVal |-> r,
                 ret |-> compareNumeric(u, r)]
    /\ UNCHANGED <<pc, index, filtered, selected, specs, shardCache, storage, searchValue,
                   filterValue, listItems, meta, detail, modalOpen, form, tasks, lastSel,
                   cacheWrites>>

SpecCompare == Init /\ [][CallCompare]_vars

-----------------------------------------------------------------------------
(* The catalog filter on its own: sessions that have loaded an index of n apps *)

MaxApps == 203

IndexSizes == {0, 1, 7} \cup ((FilterLimit - 1)..MaxApps)

GenApp(i) ==
  Summary(i,
          IF i = 1 THEN JNull
          ELSE IF i = 2 THEN Str(<<"b">>)
          ELSE IF i % 2 = 0 THEN Str(<<"B", "A", "b">>)
          ELSE Str(<<"a", "b">>),
          IF i % 3 = 0 THEN "game" ELSE IF i % 3 = 1 THEN "dlc" ELSE "tool",
          i % 4 # 0)

GenIndex(n) == [total_apps |-> n, shard_size |-> 4, apps |-> [i \in 1..n |-> GenApp(i)]]

\* The state init() leaves once loadIndex has returned idx.
ReadyWith(idx) ==
  /\ pc = "ready"
  /\ index = idx
  /\ searchValue = <<>>
  /\ filterValue = "all"
  /\ filtered = filterApps(idx, searchValue, filterValue)
  /\ listItems = renderListItems(filtered)
  /\ meta = renderListMeta(idx, filtered)
  /\ selected = JNull
  /\ specs = JNull
  /\ shardCache = <<>>
  /\ storage = JNull
  /\ detail = NoDetail
  /\ modalOpen = FALSE
  /\ form = BlankForm
  /\ tasks = <<>>
  /\ cacheWrites = [s \in ShardIdsOf(idx) |-> 0]
  /\ lastSel = [appid |-> 0, outcome |-> "none"]
  /\ probe = NoCall

InitFilter == \E n \in IndexSizes : ReadyWith(GenIndex(n))

FilterQueries == Queries \cup {<<" ">>, <<"a", "b">>, <<"b", "b">>}

NextFilter ==
  \/ SearchInput(FilterQueries)
  \/ FilterChange(Modes)

SpecFilter == InitFilter /\ [][NextFilter]_vars

-----------------------------------------------------------------------------
(* The profile store on its own: any sequence of saveSpecs, clearSpecs, loadSpecs *)

StoreForms ==
  [cpu : {<<>>, <<"a", " ">>}, gpu : {<<>>, <<"b">>},
   ram : {<<>>, ToDigits(2 * MaxNum), <<"x">>},
   vram : {<<>>, <<"2">>, <<"1", " ", "2">>},
   storage : {<<>>, <<"5", "0">>}]

\* The values the program passes to saveSpecs: what readSpecsFromForm returns.
Profiles == {readSpecsFromForm(f) : f \in StoreForms}

CallSave ==
  \E p \in Profiles :
    /\ storage' = saveSpecs(p)
    /\ probe' = [fn |-> "saveSpecs", arg |-> p]
    /\ UNCHANGED <<pc, index, filtered, selected, specs, shardCache, searchValue,
                   filterValue, listItems, meta, detail, modalOpen, form, tasks, lastSel,
                   cacheWrites>>

CallClear ==
  /\ storage' = clearSpecs
  /\ probe' = [fn |-> "clearSpecs"]
  /\ UNCHANGED <<pc, index, filtered, selected, specs, shardCache, searchValue,
                 filterValue, listItems, meta, detail, modalOpen, form, tasks, lastSel,
                 cacheWrites>>

\* loadSpecs(); the record keeps the call that preceded it.
CallLoad ==
  /\ probe.fn # "loadSpecs"
  /\ probe' = [fn |-> "loadSpecs", after |-> probe, ret |-> loadSpecs(storage)]
  /\ UNCHANGED <<pc, index, filtered, selected, specs, shardCache, storage, searchValue,
                 filterValue, listItems, meta, detail, modalOpen, form, tasks, lastSel,
                 cacheWrites>>

NextStore ==
  \/ CallSave
  \/ CallClear
  \/ CallLoad

\* Entries that are not the JSON text of an object: the empty string, a text cut
\* short, a number that is no number, a trailing comma, a missing colon.
MalformedEntries ==
  {<<>>,
   Malformed,
   <<Tok("}", <<>>), Tok("{", <<>>)>>,
   <<Tok("{", <<>>), Tok("key", <<"ram_gb">>), Tok(":", <<>>), Tok("num", <<"x">>),
     Tok("}", <<>>)>>,
   <<Tok("{", <<>>), Tok("key", <<"cpu">>), Tok(":", <<>>), Tok("str", <<"a">>),
     Tok(",", <<>>), Tok("}", <<>>)>>,
   <<Tok("{", <<>>), Tok("key", <<"cpu">>), Tok("str", <<"a">>), Tok("}", <<>>)>>}

InitStore == InitWith(InitialStorage) \/ InitWith(MalformedEntries)

SpecStore == InitStore /\ [][NextStore]_vars

-----------------------------------------------------------------------------
(* One requirement card on its own: pickReq and renderReqCard over AppDetail
   records of every shape and every profile *)

Levels == {"minimum", "recommended"}

LevelTitle(level) == IF level = "minimum" THEN "Minimum" ELSE "Recommended"

\* Numeric fields of a Requirement: left out, null, or a number.
ReqNums == {JUndef, JNull, Num(MaxNum)}

CardReqs == {Req(r, v, s) : r \in ReqNums, v \in ReqNums, s \in ReqNums}

\* Numeric fields of a stored profile: null or a number below, at or above MaxNum.
UserNums == {JNull, Num(MaxNum - 1), Num(MaxNum), Num(2 * MaxNum)}

CardProfiles ==
  {[cpu |-> JNull, gpu |-> JNull, ram_gb |-> r, vram_gb |-> v, storage_gb |-> s] :
     r \in UserNums, v \in UserNums, s \in {JNull, Num(MaxNum - 1), Num(MaxNum)}}

\* Shapes of "requirements": no member, no platform, a platform with no tier, a tier
\* of null, and a record at pc.minimum and mac.recommended only.
CardShapes == {"none", "noPlatform", "noTier", "nullTier", "record"}

CardRequirements(shape, req) ==
  CASE shape = "none" -> JUndef
    [] shape = "noPlatform" -> [pc |-> JUndef, mac |-> JNull, linux |-> JUndef]
    [] shape = "noTier" -> [pc |-> Tiers(JUndef, JUndef), mac |-> Tiers(JUndef, JUndef),
                            linux |-> Tiers(JUndef, JUndef)]
    [] shape = "nullTier" -> [pc |-> Tiers(JNull, JNull), mac |-> Tiers(JNull, JNull),
                              linux |-> Tiers(JNull, JNull)]
    [] shape = "record" -> [pc |-> Tiers(req, JUndef), mac |-> Tiers(JNull, req),
                            linux |-> JUndef]

\* Whether the data holds a Requirement record for the tier.
HasRecord(shape, platform, level) ==
  /\ shape = "record"
  /\ \/ platform = "pc" /\ level = "minimum"
     \/ platform = "mac" /\ level = "recommended"

\* One card of draw(): renderReqCard(title, pickReq(app, platform, level), userSpecs).
RenderTier(shape, req, platform, level, userSpecs) ==
  LET app == Detail(1, JNull, "game", CardRequirements(shape, req))
  IN  probe' = [fn |-> "renderReqCard", shape |-> shape, given |-> req,
                platform |-> platform, level |-> level, userSpecs |-> userSpecs,
                hasRecord |-> HasRecord(shape, platform, level),
                ret |-> renderReqCard(LevelTitle(level), pickReq(app, platform, level),
                                      userSpecs)]

CallRenderCard ==
  /\ probe = NoCall
  /\ \E shape \in CardShapes, req \in CardReqs, platform \in Platforms, level \in Levels :
       \/ \E p \in CardProfiles : RenderTier(shape, req, platform, level, p)
       \/ RenderTier(shape, req, platform, level, JNull)
  /\ UNCHANGED <<pc, index, filtered, selected, specs, shardCache, storage, searchValue,
                 filterValue, listItems, meta, detail, modalOpen, form, tasks, lastSel,
                 cacheWrites>>

SpecCard == Init /\ [][CallRenderCard]_vars

-----------------------------------------------------------------------------
(* Shard addressing on its own: selections in sessions that have loaded indexes
   of several shard sizes *)

MaxShardSize == 3

\* The members of a set of numbers in increasing order.
Ascending(S) ==
  [i \in 1..Cardinality(S) |-> CHOOSE a \in S : Cardinality({b \in S : b < a}) = i - 1]

ShardIndex(size, appids) ==
  [total_apps |-> Len(appids), shard_size |-> size,
   apps |-> [i \in 1..Len(appids) |-> Summary(appids[i], JNull, "game", FALSE)]]

\* Listed appids sit on both sides of the shard boundaries; the last index is the
\* one of a store of 1000 records per shard.
ShardIndexes ==
  {ShardIndex(z, Ascending({z - 1, z, 2 * z - 1, 2 * z + z \div 2})) : z \in 1..MaxShardSize}
    \cup {ShardIndex(1000, <<999, 1245, 1999, 2000>>)}

InitShard == \E idx \in ShardIndexes : ReadyWith(idx)

NextShard ==
  \/ SelectApp(MaxPending)
  \/ \E i \in 1..Len(tasks) : ShardFail(i)
  \/ \E i \in 1..Len(tasks) : ShardLoaded(i)

SpecShard == InitShard /\ [][NextShard]_vars

-----------------------------------------------------------------------------
(* Properties *)

\* C1: for every shard id, at most one fetch is issued however selectApp calls
\* interleave; in particular two fetches of one shard id are never in flight together.
C1_OneFetchPerShard ==
  \A i, j \in 1..Len(tasks) : i # j => tasks[i].shardId # tasks[j].shardId

\* C2: once every outstanding fetch has resolved, state.selected and the detail view
\* are those of the last selected appid (when that selection found its app).
C2_LastSelectionWins ==
  (tasks = <<>> /\ lastSel.outcome = "rendered") =>
    /\ selected # JNull
    /\ selected.appid = lastSel.appid
    /\ detail.visible
    /\ detail.app.appid = lastSel.appid

\* C3: compareNumeric returns 'unknown' when reqVal is absent, else 'unknown' when
\* userVal is absent, else 'good' exactly when userVal >= reqVal and 'bad' exactly
\* when userVal < reqVal; no other status.
Missing(x) == x.t \in {"null", "undefined", "NaN"}

C3_CompareTable ==
  probe.fn = "compareNumeric" =>
    LET u == probe.userVal
        r == probe.reqVal
        st == probe.ret.status
    IN  /\ st \in {"unknown", "good", "bad"}
        /\ Missing(r) => st = "unknown"
        /\ (~Missing(r) /\ Missing(u)) => st = "unknown"
        /\ (~Missing(r) /\ ~Missing(u)) =>
             /\ st = "good" <=> u.v >= r.v
             /\ st = "bad" <=> u.v < r.v

C3_Witness ==
  /\ probe.fn = "compareNumeric"
  /\ probe.userVal = Num(4)
  /\ probe.reqVal = Num(4)
  /\ probe.ret.status = "good"

\* C4: after applyFilters, state.filtered is the first 200 (or fewer) entries of
\* index.apps, in index order, that satisfy the category mode and whose name
\* contains the trimmed query without regard to case.
Matches(a, search, mode) ==
  /\ mode = "game" => a.type = "game"
  /\ mode = "dlc" => a.type = "dlc"
  /\ mode = "hasreqs" => a.has_requirements
  /\ trim(search) # <<>> =>
       /\ a.name.t = "string"
       /\ includes(toLowerCase(a.name.s), toLowerCase(trim(search)))

\* The positions of index.apps that match, and the rank of each among them.
MatchSet(apps, search, mode) == {i \in 1..Len(apps) : Matches(apps[i], search, mode)}

C4_FirstMatchesInOrder ==
  pc = "ready" =>
    LET M == MatchSet(index.apps, searchValue, filterValue)
        rank == [i \in M |-> Cardinality({j \in M : j <= i})]
    IN  /\ Len(filtered) <= FilterLimit
        /\ Len(filtered) = IF Cardinality(M) < FilterLimit THEN Cardinality(M)
                           ELSE FilterLimit
        /\ \A i \in M : rank[i] <= FilterLimit => filtered[rank[i]] = index.apps[i]
        /\ filtered = filterApps(index, searchValue, filterValue)

C4_Witness ==
  /\ pc = "ready"
  /\ searchValue # <<>>
  /\ Len(filtered) = FilterLimit
  /\ Cardinality(MatchSet(index.apps, searchValue, filterValue)) > FilterLimit

\* C5: loadSpecs() right after saveSpecs(profile) returns profile, and right after
\* clearSpecs() returns null, whatever was stored before.
C5_RoundTrip ==
  probe.fn = "loadSpecs" =>
    /\ probe.after.fn = "saveSpecs" => probe.ret = probe.after.arg
    /\ probe.after.fn = "clearSpecs" => probe.ret = JNull

C5_Witness ==
  /\ probe.fn = "loadSpecs"
  /\ probe.after.fn = "saveSpecs"
  /\ probe.after.arg.ram_gb = Num(0)
  /\ probe.after.arg.vram_gb = JNull
  /\ probe.after.arg.cpu # JNull
  /\ probe.ret = probe.after.arg

\* C6: the active platform of an open detail view changes only through a tab
\* selection or the selection of a different title; saving or clearing the profile
\* does not change it.
C6_SaveKeepsPlatform ==
  [][(SaveSpecsClick \/ ClearSpecsClick) => detail'.platform = detail.platform]_vars

\* C7: the shard cache is write-once per key: the entry of a shard id is stored at
\* most once in a session.
C7_CacheWriteOnce == \A s \in ShardIds : cacheWrites[s] <= 1

\* C8: after a failed shard fetch the listing summary text (els.meta) is a failure
\* message, as it is after a failed index load.
C8_ShardFailureSurfaced ==
  [][(\E i \in 1..Len(tasks) : ShardFail(i)) => IsFailureText(meta')]_vars

\* C9: a failed shard fetch leaves the cache, state.selected, state.filtered,
\* state.specs and the views as they were, adds no cache entry for the failed id,
\* and a later selection in a shard that is not cached issues a new fetch.
C9_FailedFetchFrame ==
  /\ [][\A i \in 1..Len(tasks) : ShardFail(i) =>
          /\ shardCache' = shardCache
          /\ selected' = selected
          /\ filtered' = filtered
          /\ specs' = specs
          /\ detail' = detail
          /\ listItems' = listItems
          /\ pc' = pc
          /\ tasks' = RemoveAt(tasks, i)]_vars
  /\ [][(SelectApp(MaxInFlight)
          /\ ~cacheHas(shardCache, shardForAppid(index, lastSel'.appid))) =>
          /\ Len(tasks') = Len(tasks) + 1
          /\ tasks'[Len(tasks')].appid = lastSel'.appid
          /\ tasks'[Len(tasks')].shardId = shardForAppid(index, lastSel'.appid)]_vars

C9_Witness ==
  /\ lastSel.outcome = "failed"
  /\ ~cacheHas(shardCache, shardForAppid(index, lastSel.appid))
  /\ selected # JNull
  /\ DOMAIN shardCache # {}
  /\ \E k \in 1..Len(listItems) : listItems[k] = lastSel.appid

\* C10: applyFilters and selectApp run only with state.index loaded; when the index
\* load fails no handler is installed, the list stays empty and it stays that way.
C10_IndexBeforeUse ==
  /\ []((ListenersRegistered \/ listItems # <<>> \/ tasks # <<>>) => index # JNull)
  /\ [](pc = "failed" => (index = JNull /\ ~ListenersRegistered /\ listItems = <<>>))
  /\ [][pc = "failed" => pc' = "failed"]_vars
  /\ [][(filtered' # filtered \/ lastSel' # lastSel) => (pc = "ready" \/ pc' = "ready")]_vars

C10_Witness ==
  /\ pc = "ready"
  /\ searchValue # <<>>
  /\ Len(filtered) > 0
  /\ lastSel.outcome = "rendered"

\* C11: loadSpecs never throws: with no stored entry or a malformed one it returns
\* null, and the stored entry is left as it was by the read.
C11_LoadNeverThrows ==
  /\ [](probe.fn = "loadSpecs" =>
          /\ probe.ret # [t |-> "throw"]
          /\ (storage = JNull \/ storage \in MalformedEntries) => probe.ret = JNull)
  /\ [][probe'.fn = "loadSpecs" /\ probe.fn # "loadSpecs" => storage' = storage]_vars

C11_Witness ==
  /\ probe.fn = "loadSpecs"
  /\ probe.after.fn = "none"
  /\ storage # JNull
  /\ storage = Malformed
  /\ probe.ret = JNull

CardFields == {"ram_gb", "vram_gb", "storage_gb"}

\* The comparison of one numeric field for the card in probe.
CardCmp(f) == compareNumeric(SpecField(probe.userSpecs, f), probe.given[f]).status

\* C12: for a tier that has a Requirement record the badge is "bad" exactly when one
\* of the RAM, VRAM and storage comparisons is "bad" and "good" otherwise; with no
\* stored profile the three comparisons are "unknown", the badge is not "bad" and
\* it reads "Set your specs", not "Compared".
C12_BadgeFromComparisons ==
  probe.fn = "renderReqCard" /\ probe.hasRecord =>
    /\ probe.ret.cmps =
         <<compareNumeric(SpecField(probe.userSpecs, "ram_gb"), probe.given.ram_gb),
           compareNumeric(SpecField(probe.userSpecs, "vram_gb"), probe.given.vram_gb),
           compareNumeric(SpecField(probe.userSpecs, "storage_gb"), probe.given.storage_gb)>>
    /\ probe.ret.badge = "badge bad" <=> \E f \in CardFields : CardCmp(f) = "bad"
    /\ probe.ret.badge # "badge bad" => probe.ret.badge = "badge good"
    /\ probe.userSpecs = JNull =>
         /\ \A f \in CardFields : CardCmp(f) = "unknown"
         /\ probe.ret.badge # "badge bad"
         /\ probe.ret.label = "Set your specs"
    /\ probe.userSpecs # JNull => probe.ret.label = "Compared"

C12_Witness ==
  /\ probe.fn = "renderReqCard"
  /\ probe.hasRecord
  /\ probe.userSpecs # JNull
  /\ CardCmp("ram_gb") = "good"
  /\ CardCmp("vram_gb") = "unknown"
  /\ CardCmp("storage_gb") = "bad"
  /\ probe.ret.badge = "badge bad"

\* The Requirement record in probe states no number at all.
NoNumbers == \A f \in CardFields : Nullish(probe.given[f])

\* C13: a tier with no Requirement record is rendered "Missing" with no numeric
\* comparison, whatever the profile; a record whose numeric fields are all absent
\* is never "Missing": it gets the comparison card, every comparison "unknown".
C13_MissingOnlyWithoutRecord ==
  probe.fn = "renderReqCard" =>
    /\ ~probe.hasRecord =>
         /\ probe.ret.label = "Missing"
         /\ probe.ret.badge = "badge warn"
         /\ probe.ret.cmps = <<>>
         /\ probe.ret.shown = <<>>
    /\ probe.hasRecord /\ NoNumbers =>
         /\ probe.ret.label # "Missing"
         /\ probe.ret.badge = "badge good"
         /\ Len(probe.ret.cmps) = 3
         /\ \A i \in 1..3 : probe.ret.cmps[i].status = "unknown"

C13_Witness ==
  /\ probe.fn = "renderReqCard"
  /\ probe.hasRecord
  /\ NoNumbers
  /\ probe.userSpecs # JNull
  /\ probe.userSpecs.ram_gb = Num(MaxNum)
  /\ probe.ret.label = "Compared"
  /\ probe.ret.shown = <<<<"No numeric requirement">>, <<"No numeric requirement">>,
                         <<"No numeric requirement">>>>

\* The record of appid in the data store, null when it has none.
RecordOf(appid) ==
  IF \E i \in 1..Len(StoreDetails(index)) : StoreDetails(index)[i].appid = appid
    THEN StoreDetails(index)[CHOOSE i \in 1..Len(StoreDetails(index)) :
                               StoreDetails(index)[i].appid = appid]
    ELSE JNull

\* The fetch a selection of appid has to issue.
FetchFor(appid) ==
  [appid |-> appid, shardId |-> StoreShard(index.shard_size, appid)]

\* C14: shardForAppid(a) is floor(a / shard_size), the same at every call; a
\* selection of an app whose shard is not cached issues exactly one fetch, addressed
\* to the resource of that shard id; the app the selection yields is the record of
\* that shard whose appid is a.
C14_ShardAddressing ==
  /\ [](\A i \in 1..Len(tasks) :
          /\ tasks[i] = FetchFor(tasks[i].appid)
          /\ shardUrl(tasks[i].shardId) = StoreName(tasks[i].shardId))
  /\ [][/\ Len(tasks') <= Len(tasks) + 1
        /\ Len(tasks') = Len(tasks) + 1 =>
             /\ tasks' = Append(tasks, FetchFor(lastSel'.appid))
             /\ ~cacheHas(shardCache, FetchFor(lastSel'.appid).shardId)
        /\ lastSel'.outcome = "pending" /\ lastSel' # lastSel =>
             tasks' = Append(tasks, FetchFor(lastSel'.appid))
        /\ cacheWrites' # cacheWrites =>
             \E i \in 1..Len(tasks) :
               /\ tasks' = RemoveAt(tasks, i)
               /\ shardCache' = cacheSet(shardCache, FetchFor(tasks[i].appid).shardId,
                                         ShardDoc(FetchFor(tasks[i].appid).shardId))
               /\ selected' = RecordOf(tasks[i].appid)
        /\ tasks' = tasks /\ lastSel' # lastSel =>
             /\ cacheHas(shardCache, FetchFor(lastSel'.appid).shardId)
             /\ selected' = RecordOf(lastSel'.appid)]_vars

C14_Witness ==
  /\ index # JNull
  /\ index.shard_size = 1000
  /\ tasks = <<>>
  /\ DOMAIN shardCache = {1}
  /\ Len(shardCache[1]) = 2
  /\ selected # JNull
  /\ selected.appid = 1245
  /\ lastSel = [appid |-> 1245, outcome |-> "rendered"]

\* C15: whenever the detail view is visible, the title it shows is state.selected
\* and its comparisons use the current state.specs, after any sequence of
\* selections (appids without a record included), saves and clears.
C15_DetailShowsSelected ==
  detail.visible => detail.app = selected /\ detail.userSpecs = specs

\* C16: a Save with a numeric field of the form left blank stores that field as
\* null, so that its later comparisons are "unknown" and never "bad".
C16_BlankSavedAsNull ==
  [][SaveSpecsClick =>
       /\ trim(form.ram) = <<>> =>
            /\ specs'.ram_gb = JNull
            /\ \A r \in CmpValues : compareNumeric(specs'.ram_gb, r).status = "unknown"
       /\ trim(form.vram) = <<>> =>
            /\ specs'.vram_gb = JNull
            /\ \A r \in CmpValues : compareNumeric(specs'.vram_gb, r).status = "unknown"
       /\ trim(form.storage) = <<>> =>
            /\ specs'.storage_gb = JNull
            /\ \A r \in CmpValues : compareNumeric(specs'.storage_gb, r).status = "unknown"]_vars

\* C17 as stated: once init has run, state.specs is what loadSpecs() would return
\* from the store, and it is null exactly when the store has no entry.
C17_NullOnlyWhenAbsent ==
  pc # "start" =>
    /\ specs = loadSpecs(storage)
    /\ specs = JNull <=> storage = JNull

\* The step changes the stored entry.
EntryChanged ==
  IF storage = JNull THEN storage' # JNull
  ELSE IF storage' = JNull THEN TRUE
  ELSE storage' # storage

\* C17, amended: after init and after every Save or Clear state.specs is what
\* loadSpecs() would return from the store, which is null when the store has no
\* entry or an entry that does not parse; only init, Save and Clear change the
\* profile in memory or in the store.
C17_SpecsMirrorStore ==
  /\ [](pc # "start" =>
          /\ specs = loadSpecs(storage)
          /\ storage = JNull => specs = JNull
          /\ specs = JNull => (storage = JNull \/ ~JSONparse(storage).ok))
  /\ [][specs' # specs \/ EntryChanged =>
          InitStart \/ SaveSpecsClick \/ ClearSpecsClick]_vars

C17_Witness ==
  /\ pc = "ready"
  /\ ~modalOpen
  /\ specs # JNull
  /\ specs.ram_gb = Num(0)
  /\ storage # JNull
  /\ storage = JSONstringify(specs)

====
